---------------------------- MODULE Spec2Model ----------------------------
(***************************************************************************)
(* Model of olympia/lib/git.py: one git repository per (add-on id, package *)
(* type), a temporary worktree per extraction, and the commit pipeline of  *)
(* AddonGitRepository.extract_and_commit_from_version.                     *)
(*                                                                         *)
(* Every worker is one thread or process executing one call at a time.     *)
(* The only state the workers share is the file system: the repositories   *)
(* below GIT_FILE_STORAGE_PATH and the directories below TMP_PATH.         *)
(*                                                                         *)
(* Library behaviour the source relies on and the model takes as given:    *)
(*  - uuid.uuid4() returns a value no live worktree or branch uses;        *)
(*  - tempfile.mkdtemp() returns a directory that did not exist;           *)
(*  - Branch.set_target() writes the reference unconditionally, as the     *)
(*    docstring of extract_and_commit_from_version describes ("the last    *)
(*    upload simply wins the race");                                       *)
(*  - every create_commit() call writes a new object (a signature carries  *)
(*    the time of the call), so a commit is identified by the position at  *)
(*    which it was appended to the object store;                           *)
(*  - archives hold regular files whose names mean nothing to git, apart   *)
(*    from the segment '.git' the source handles itself.                   *)
(***************************************************************************)
EXTENDS Integers, Sequences, FiniteSets, TLC

VARIABLES
    repos,      \* path -> on-disk repository (state, objects, refs, worktrees)
    tmp,        \* temp directory name -> its file tree, or NoDir
    pc,         \* worker -> position in the call it is executing
    call,       \* worker -> inputs of the call in flight
    lang,       \* worker -> [active, saved] locale of the worker's thread
    handle,     \* worker -> what the worker's cached git_repository has seen
    br,         \* worker -> the Branch object find_or_create_branch returned
    wt,         \* worker -> the TemporaryWorktree object of the call
    staged,     \* worker -> [tree, oid] written by _commit_through_worktree
    exc,        \* worker -> exception propagating in the call, or NoExc
    vhash,      \* version id -> [git_hash, source_git_hash] stored on Version
    hist,       \* finished calls, in the order they finished
    ncalls,     \* number of calls started so far
    nfaults,    \* number of environment failures injected so far
    walks       \* the walks of iter_tree made so far, with what they yielded

vars == <<repos, tmp, pc, call, lang, handle, br, wt, staged, exc, vhash,
          hist, ncalls, nfaults, walks>>

-----------------------------------------------------------------------------
(* Bounds of the model *)

MaxCalls == 2         \* calls started by workers running side by side
MaxSerialCalls == 3   \* calls started one after another
MaxFaults == 1        \* failures of the environment in one behaviour
MaxWalks == 2         \* walks of iter_tree in one behaviour

Workers == {"w1", "w2"}

-----------------------------------------------------------------------------
(* Constants of git.py *)

EXTRACTED_PREFIX == "extracted"

BRANCHES == [listed |-> "listed", unlisted |-> "unlisted"]

DOTGIT == ".git"

Robot == [name |-> "Mozilla Add-ons Robot",
          email |-> "addons-dev-automation+github@mozilla.com"]

PackageTypes == {"addon", "source"}

HexLen == 8

-----------------------------------------------------------------------------
(* Inputs: users, archives and versions the callers pass in *)

NoUser == [name |-> "<None>", email |-> "<None>"]

UserA == [name |-> "A", email |-> "a@x.com"]

DIR == "<dir>"

File(path, content) == [p |-> path, c |-> content]

\* The files of the archives behind the versions (paths relative to the
\* archive root).  3 holds a '.git' directory, 4 a '.git' directory nested
\* in a '.git' directory, 5 holds no file at all, 6 directories within
\* directories and a file whose name starts with the name of a directory.
ArchiveOf(vid) ==
    CASE vid = 1 -> {File(<<"manifest.json">>, "m1"), File(<<"README.md">>, "r1")}
      [] vid = 2 -> {File(<<"manifest.json">>, "m2")}
      [] vid = 3 -> {File(<<"manifest.json">>, "m1"),
                     File(<<".git", "config">>, "g1")}
      [] vid = 4 -> {File(<<"manifest.json">>, "m1"),
                     File(<<".git", ".git", "config">>, "g2")}
      [] vid = 6 -> {File(<<"README.md">>, "r1"),
                     File(<<"_locales", "de", "messages.json">>, "d1"),
                     File(<<"_locales", "en", "messages.json">>, "e1"),
                     File(<<"icons", "LICENSE">>, "l1"),
                     File(<<"icons.txt">>, "t1"),
                     File(<<"manifest.json">>, "m6")}
      [] OTHER   -> {}

\* version.source: the source archive uploaded with a version
SourceOf(vid) ==
    {File(<<"README.md">>, "s1"), File(<<"manifest.json">>, "s2")}

\* version.channel, version.addon.id and the uploading user of each version
VersionOf(vid) ==
    [id      |-> vid,
     addon   |-> "1",
     channel |-> IF vid \in {3, 4} THEN "unlisted" ELSE "listed",
     author  |-> IF vid \in {2, 3} THEN UserA ELSE NoUser]

AllVersions == 1 .. 6

AddonIds == {"1", "12"}

\* values uuid.uuid4().hex can take, and names mkdtemp can make
UuidPool == {"b236f5994773477bbcd2d1b75ab1458f",
             "af4172e4d8c74486a5f2316458da91ff"}

TmpPool == {"tmpA", "tmpB", "tmpC"}

\* locales a caller may have active (translation.get_language())
Locales == {"fr", "en-US"}

-----------------------------------------------------------------------------
(* Paths and file trees.  A path is a sequence of segments; a file tree is *)
(* a set of nodes [p, c], c = DIR for a directory.                         *)

Basename(path) == path[Len(path)]

IsPrefix(a, b) == Len(a) <= Len(b) /\ SubSeq(b, 1, Len(a)) = a

PathExists(fs, path) == \E n \in fs : n.p = path

\* shutil.move(src, dst) of a path that exists to a path that does not:
\* the node and everything below it moves
Move(fs, src, dst) ==
    {IF IsPrefix(src, n.p)
        THEN [n EXCEPT !.p = dst \o SubSeq(n.p, Len(src) + 1, Len(n.p))]
        ELSE n : n \in fs}

\* olympia.files.utils.id_to_path: last digit / last two digits / id
IdToPath(pk) ==
    <<SubSeq(pk, Len(pk), Len(pk)),
      IF Len(pk) >= 2 THEN SubSeq(pk, Len(pk) - 1, Len(pk)) ELSE pk,
      pk>>

\* AddonGitRepository.__init__: self.git_repository_path
RepositoryPath(addon_id, package_type) ==
    <<"GIT_FILE_STORAGE_PATH">> \o IdToPath(addon_id) \o <<package_type>>

RepoPaths == {RepositoryPath(a, t) : a \in AddonIds, t \in PackageTypes}

-----------------------------------------------------------------------------
(* The collaborators of _commit_through_worktree *)

\* the characters of the names, in byte order
Alphabet == "-./0123456789ABCDEFGHIJKLMNOPQRSTUVWXYZ_abcdefghijklmnopqrstuvwxyz"

CharRank(c) == CHOOSE i \in 1 .. Len(Alphabet) : SubSeq(Alphabet, i, i) = c

RECURSIVE BytesLess(_, _)
\* a < b, byte by byte; a proper prefix is less
BytesLess(a, b) ==
    IF Len(a) = 0 THEN Len(b) > 0
    ELSE IF Len(b) = 0 THEN FALSE
    ELSE LET x == SubSeq(a, 1, 1)
             y == SubSeq(b, 1, 1)
         IN IF x # y THEN CharRank(x) < CharRank(y)
            ELSE BytesLess(SubSeq(a, 2, Len(a)), SubSeq(b, 2, Len(b)))

RECURSIVE SortNodes(_)
\* sorted(names): the nodes of a directory in the byte order of their names
SortNodes(S) ==
    IF S = {} THEN <<>>
    ELSE LET m == CHOOSE n \in S :
                    \A k \in S : ~BytesLess(Basename(k.p), Basename(n.p))
         IN <<m>> \o SortNodes(S \ {m})

PathsOf(nodes) == [i \in 1 .. Len(nodes) |-> nodes[i].p]

RECURSIVE Iterate(_, _), IterateDirs(_, _)
\* olympia.files.utils.get_all_files, iterate(path): each directory (sorted),
\* followed by what is below it, then the files (sorted)
Iterate(fs, path) ==
    LET kids  == {n \in fs : Len(n.p) = Len(path) + 1 /\ IsPrefix(path, n.p)}
        dirs  == SortNodes({n \in kids : n.c = DIR})
        files == SortNodes({n \in kids : n.c # DIR})
    IN IterateDirs(fs, dirs) \o PathsOf(files)

IterateDirs(fs, dirs) ==
    IF dirs = <<>> THEN <<>>
    ELSE <<Head(dirs).p>> \o Iterate(fs, Head(dirs).p)
                          \o IterateDirs(fs, Tail(dirs))

\* get_all_files(folder, strip_prefix, ''): the paths below folder, relative
\* to strip_prefix
GetAllFiles(fs, folder, strip_prefix) ==
    LET all == Iterate(fs, folder)
    IN [i \in 1 .. Len(all) |->
           SubSeq(all[i], Len(strip_prefix) + 1, Len(all[i]))]

\* extract_extension_to_dest(source, dest): the files of the archive below
\* dest, with the directories that hold them
ExtractTo(archive, dest) ==
    {File(dest \o f.p, f.c) : f \in archive}
      \cup UNION {{File(dest \o SubSeq(f.p, 1, k), DIR) :
                      k \in 1 .. Len(f.p) - 1} : f \in archive}

\* '{}.{}'.format(filename, uuid.uuid4().hex[:8])
Renamed(filename, hex) ==
    SubSeq(filename, 1, Len(filename) - 1)
        \o <<Basename(filename) \o "." \o SubSeq(hex, 1, HexLen)>>

RECURSIVE RenameLoop(_, _, _, _)
\* The loop over `files` of _commit_through_worktree.  hexes are the values
\* uuid4().hex takes, in the order the loop draws them.  shutil.move raises
\* when its source does not exist.
RenameLoop(fs, wpath, files, hexes) ==
    IF files = <<>> THEN [ok |-> TRUE, fs |-> fs]
    ELSE LET filename == Head(files) IN
         IF Basename(filename) = DOTGIT
            THEN IF PathExists(fs, wpath \o filename)
                    THEN RenameLoop(
                            Move(fs, wpath \o filename,
                                 wpath \o Renamed(filename, Head(hexes))),
                            wpath, Tail(files), Tail(hexes))
                    ELSE [ok |-> FALSE, fs |-> fs]
            ELSE RenameLoop(fs, wpath, Tail(files), hexes)

\* how many values the loop may draw
NumRenames(files) ==
    Cardinality({i \in 1 .. Len(files) : Basename(files[i]) = DOTGIT})

\* index.add_all() and index.write_tree() in the worktree at wpath: every
\* file of the working directory, by its path relative to it
WriteTree(fs, wpath) ==
    {File(SubSeq(n.p, Len(wpath) + 1, Len(n.p)), n.c) :
        n \in {m \in fs : m.c # DIR /\ IsPrefix(wpath, m.p)}}

\* the tree of the commit itself, with its prefix
GetRootTreeWhole(tree) == [ok |-> tree # {}, tree |-> tree]

\* AddonGitRepository.get_root_tree: commit.tree[EXTRACTED_PREFIX], a
\* KeyError when the tree has no such entry
GetRootTree(tree) ==
    LET below == {n \in tree : n.p[1] = EXTRACTED_PREFIX}
    IN [ok   |-> below # {},
        tree |-> {File(Tail(n.p), n.c) : n \in below}]

-----------------------------------------------------------------------------
(* The objects of a repository.  An object id stands for the content it    *)
(* is the hash of: a tree by the files below it, a blob by its data.       *)

TreeOid(files) == [kind |-> "tree", files |-> files, data |-> ""]

BlobOid(data) == [kind |-> "blob", files |-> {}, data |-> data]

\* blob=None of a TreeEntryWrapper
NoBlob == [kind |-> "none", files |-> {}, data |-> ""]

\* the files below the directory `pre` of a tree, relative to it
SubTree(files, pre) ==
    {File(SubSeq(f.p, Len(pre) + 1, Len(f.p)), f.c) :
        f \in {g \in files : IsPrefix(pre, g.p) /\ Len(g.p) > Len(pre)}}

\* the entries of a tree object, unordered: a blob for a file, a tree for a
\* directory
EntrySet(files) ==
    {IF \E f \in files : f.p = <<name>>
        THEN [name |-> name, type |-> "blob",
              oid |-> BlobOid((CHOOSE f \in files : f.p = <<name>>).c)]
        ELSE [name |-> name, type |-> "tree",
              oid |-> TreeOid(SubTree(files, <<name>>))] :
     name \in {f.p[1] : f \in files}}

\* entries in the order of their names alone
PlainKey(entry) == entry.name

\* what git orders the entries of a tree by: the name, a tree's name taken
\* with a '/' at its end
GitKey(entry) == IF entry.type = "tree" THEN entry.name \o "/" ELSE entry.name

RECURSIVE SortEntries(_)
SortEntries(S) ==
    IF S = {} THEN <<>>
    ELSE LET m == CHOOSE e \in S :
                    \A k \in S \ {e} : BytesLess(GitKey(e), GitKey(k))
         IN <<m>> \o SortEntries(S \ {m})

\* entries read from the tree of the commit written last, when the tree
\* walked is the tree of a commit
TreeEntriesOfLatest(tree) ==
    LET stores == {repos[p].commits : p \in DOMAIN repos}
        latest == {c[Len(c)].tree : c \in {d \in stores : d # <<>>}}
        trees  == UNION {{c[i].tree : i \in 1 .. Len(c)} : c \in stores}
    IN SortEntries(EntrySet(
          IF tree.files \in trees \ {{}}
             THEN CHOOSE t \in latest : t # {} ELSE tree.files))

\* `for tree_entry in tree`: the entries of a tree object as write_tree
\* stored them
TreeEntries(tree) == SortEntries(EntrySet(tree.files))

\* the directories of a tree, the tree itself (<<>>) included
DirsOf(files) ==
    UNION {{SubSeq(f.p, 1, k) : k \in 0 .. Len(f.p) - 1} : f \in files}

\* the trees and blobs the commits of a repository refer to
Objects(repo) ==
    UNION {{TreeOid(SubTree(repo.commits[c].tree, pre)) :
               pre \in DirsOf(repo.commits[c].tree) \cup {<<>>}}
             \cup {BlobOid(f.c) : f \in repo.commits[c].tree} :
           c \in 1 .. Len(repo.commits)}

\* self.git_repository[oid]: the object of that id in the object store
Lookup(repo, oid) == CHOOSE o \in Objects(repo) : o = oid

TreeEntryWrapper(blob, tree_entry, path) ==
    [blob |-> blob, tree_entry |-> tree_entry, path |-> path]

\* os.path.join(a, b)
PathJoin(a, b) == a \o "/" \o b

RECURSIVE IterTree(_, _), IterEntries(_, _)
\* AddonGitRepository.iter_tree: the records it yields, in order
IterTree(repo, tree) == IterEntries(repo, TreeEntries(tree))

\* the body of the loop of iter_tree for the entries that remain
IterEntries(repo, entries) ==
    IF entries = <<>> THEN <<>>
    ELSE LET tree_entry   == Head(entries)
             tree_or_blob == Lookup(repo, tree_entry.oid)
             children     == IterTree(repo, tree_or_blob)
         IN (IF tree_or_blob.kind = "tree"
                THEN <<TreeEntryWrapper(NoBlob, tree_entry, tree_entry.name)>>
                       \o [i \in 1 .. Len(children) |->
                              TreeEntryWrapper(
                                 children[i].blob, children[i].tree_entry,
                                 PathJoin(tree_entry.name, children[i].path))]
                ELSE <<TreeEntryWrapper(tree_or_blob, tree_entry,
                                        tree_entry.name)>>)
            \o IterEntries(repo, Tail(entries))

\* a signature that is the service identity whoever the user is
GetAuthorRobotOnly(user) == Robot

\* AddonGitRepository.get_author
GetAuthor(user) ==
    IF user # NoUser
       THEN [name |-> user.name, email |-> user.email]
       ELSE Robot

-----------------------------------------------------------------------------
(* The state *)

NoExc == "none"

NoRefs == [n \in {} |-> 0]

\* a path that does not exist below GIT_FILE_STORAGE_PATH
NoRepo == [state |-> "absent", commits |-> <<>>, refs |-> NoRefs,
           worktrees |-> {}]

NoDir == [exists |-> FALSE, fs |-> {}]

NoCall == [op |-> "none", vid |-> 0, addon |-> "", ptype |-> "",
           state0 |-> "", tip0 |-> 0, lang0 |-> "",
           hash0 |-> [git_hash |-> "", source_git_hash |-> ""],
           branches0 |-> {}]

NoHandle == [path |-> <<>>, open |-> FALSE, root |-> 0]

NoBranch == [name |-> "", target |-> 0, created |-> FALSE]

NoWorktree == [name |-> "", dir |-> "", obj |-> FALSE]

NoStaged == [tree |-> {}, oid |-> 0]

SetRef(refs, name, target) ==
    [n \in DOMAIN refs \cup {name} |-> IF n = name THEN target ELSE refs[n]]

DelRef(refs, name) == [n \in DOMAIN refs \ {name} |-> refs[n]]

\* repository.head.target; 0 while HEAD is unborn
HeadTarget(repo) ==
    IF "master" \in DOMAIN repo.refs THEN repo.refs["master"] ELSE 0

\* the tip of a branch; 0 when there is no such branch
Tip(repo, name) == IF name \in DOMAIN repo.refs THEN repo.refs[name] ELSE 0

Init ==
    /\ repos = [p \in RepoPaths |-> NoRepo]
    /\ tmp = [d \in TmpPool |-> NoDir]
    /\ pc = [w \in Workers |-> "idle"]
    /\ call = [w \in Workers |-> NoCall]
    /\ lang = [w \in Workers |-> [active |-> "fr", saved |-> ""]]
    /\ handle = [w \in Workers |-> NoHandle]
    /\ br = [w \in Workers |-> NoBranch]
    /\ wt = [w \in Workers |-> NoWorktree]
    /\ staged = [w \in Workers |-> NoStaged]
    /\ exc = [w \in Workers |-> NoExc]
    /\ vhash = [v \in AllVersions |-> [git_hash |-> "", source_git_hash |-> ""]]
    /\ hist = <<>>
    /\ ncalls = 0
    /\ nfaults = 0
    /\ walks = <<>>

Idle == \A w \in Workers : pc[w] = "idle"

\* an exception leaves the step at `to` with the exception pending
Raise(w, name, to) ==
    /\ exc' = [exc EXCEPT ![w] = name]
    /\ pc' = [pc EXCEPT ![w] = to]

Goto(w, to) == pc' = [pc EXCEPT ![w] = to]

-----------------------------------------------------------------------------
(* AddonGitRepository.git_repository (cached_property) *)

\* a test that never finds the path
IsExtractedNever(repo) == FALSE

\* is_extracted
IsExtracted(repo) == repo.state # "absent"

\* line 110: the test of the path
CheckExtracted(w) ==
    /\ pc[w] = "open"
    /\ Goto(w, IF IsExtracted(repos[handle[w].path]) THEN "reopen" ELSE "makedirs")
    /\ UNCHANGED <<walks, repos, tmp, call, lang, handle, br, wt, staged, exc, vhash,
                   hist, ncalls, nfaults>>

\* what follows the property in the caller
AfterOpen(w) == IF call[w].op = "access" THEN "finally" ELSE "lookup"

\* line 111: os.makedirs raises when the path exists
MakeDirs(w) ==
    LET path == handle[w].path IN
    /\ pc[w] = "makedirs"
    /\ IF repos[path].state # "absent"
          THEN /\ Raise(w, "FileExistsError", "finally")
               /\ UNCHANGED repos
          ELSE /\ repos' = [repos EXCEPT ![path].state = "dir"]
               /\ Goto(w, "init")
               /\ UNCHANGED exc
    /\ UNCHANGED <<walks, tmp, call, lang, handle, br, wt, staged, vhash, hist,
                   ncalls, nfaults>>

\* lines 112-114: pygit2.init_repository
InitRepository(w) ==
    LET path == handle[w].path IN
    /\ pc[w] = "init"
    /\ repos' = [repos EXCEPT ![path].state = "init"]
    /\ Goto(w, "root")
    /\ UNCHANGED <<walks, tmp, call, lang, handle, br, wt, staged, exc, vhash, hist,
                   ncalls, nfaults>>

RootCommit ==
    [tree |-> {}, parents |-> <<>>, author |-> GetAuthor(NoUser),
     committer |-> GetAuthor(NoUser),
     message |-> [text |-> "Initializing repository", vid |-> 0]]

\* lines 116-123: the empty tree and the first commit, on HEAD.  create_commit
\* refuses to update a reference whose tip is not the first parent.
CreateRootCommit(w) ==
    LET path == handle[w].path
        repo == repos[path]
        oid  == Len(repo.commits) + 1
    IN
    /\ pc[w] = "root"
    /\ IF HeadTarget(repo) # 0
          THEN /\ Raise(w, "GitError", "finally")
               /\ UNCHANGED <<repos, handle>>
          ELSE /\ repos' = [repos EXCEPT ![path] =
                              [repo EXCEPT !.commits = Append(@, RootCommit),
                                           !.refs = SetRef(@, "master", oid),
                                           !.state = "ready"]]
               /\ handle' = [handle EXCEPT ![w].open = TRUE, ![w].root = oid]
               /\ Goto(w, AfterOpen(w))
               /\ UNCHANGED exc
    /\ UNCHANGED <<walks, tmp, call, lang, br, wt, staged, vhash, hist, ncalls,
                   nfaults>>

\* line 128: pygit2.Repository(path) raises when the path holds no repository
OpenExisting(w) ==
    LET path == handle[w].path
        repo == repos[path]
    IN
    /\ pc[w] = "reopen"
    /\ IF repo.state \in {"absent", "dir"}
          THEN /\ Raise(w, "GitError", "finally")
               /\ UNCHANGED handle
          ELSE /\ handle' = [handle EXCEPT ![w].open = TRUE,
                                           ![w].root = HeadTarget(repo)]
               /\ Goto(w, AfterOpen(w))
               /\ UNCHANGED exc
    /\ UNCHANGED <<walks, repos, tmp, call, lang, br, wt, staged, vhash, hist,
                   ncalls, nfaults>>

-----------------------------------------------------------------------------
(* AddonGitRepository.extract_and_commit_from_version, step by step *)

\* names a reference or a worktree of some repository carries, or a
\* TemporaryWorktree object of another call holds
NamesInUse ==
    UNION {DOMAIN repos[p].refs \cup repos[p].worktrees : p \in RepoPaths}
      \cup {wt[w].name : w \in Workers}

\* uuid.uuid4().hex
Uuid4Hex(inuse) == UuidPool \ inuse

\* a directory name handed out whether or not it is taken
MkdtempFixed(dirs) == {"tmpA"}

\* tempfile.mkdtemp(dir=settings.TMP_PATH): a new directory.  Which of the
\* unused names it takes is of no consequence; the name of a directory a
\* call still refers to is not handed out a second time.
Mkdtemp(dirs) ==
    LET free == {d \in TmpPool : ~dirs[d].exists /\ \A w \in Workers : wt[w].dir # d}
    IN IF free = {} THEN {} ELSE {CHOOSE d \in free : TRUE}

\* lines 193-202: the active locale is saved, en-US activated, the
\* repository object built
Call(w, vid) ==
    LET version == VersionOf(vid)
        path    == RepositoryPath(version.addon, "addon")
    IN
    /\ pc[w] = "idle"
    /\ ncalls' = ncalls + 1
    /\ call' = [call EXCEPT ![w] =
                   [op |-> "extract", vid |-> vid,
                    addon |-> version.addon, ptype |-> "addon",
                    state0 |-> repos[path].state,
                    tip0 |-> Tip(repos[path], BRANCHES[version.channel]),
                    lang0 |-> lang[w].active,
                    hash0 |-> vhash[vid],
                    branches0 |-> DOMAIN repos[path].refs]]
    /\ lang' = [lang EXCEPT ![w] = [active |-> "en-US", saved |-> @.active]]
    /\ handle' = [handle EXCEPT ![w] = [NoHandle EXCEPT !.path = path]]
    /\ Goto(w, "open")
    /\ UNCHANGED <<walks, repos, tmp, br, wt, staged, exc, vhash, hist, nfaults>>

\* extract_and_commit_source_from_version, lines 236-237: the repository
\* object of the sources is built; the locale is left alone
CallSource(w, vid) ==
    LET version == VersionOf(vid)
        path    == RepositoryPath(version.addon, "source")
    IN
    /\ pc[w] = "idle"
    /\ ncalls' = ncalls + 1
    /\ call' = [call EXCEPT ![w] =
                   [op |-> "source", vid |-> vid,
                    addon |-> version.addon, ptype |-> "source",
                    state0 |-> repos[path].state,
                    tip0 |-> Tip(repos[path], BRANCHES[version.channel]),
                    lang0 |-> lang[w].active,
                    hash0 |-> vhash[vid],
                    branches0 |-> DOMAIN repos[path].refs]]
    /\ handle' = [handle EXCEPT ![w] = [NoHandle EXCEPT !.path = path]]
    /\ Goto(w, "open")
    /\ UNCHANGED <<walks, repos, tmp, lang, br, wt, staged, exc, vhash, hist,
                   nfaults>>

\* a lookup that starts the branch afresh at the commit of HEAD
LookupBranchReset(w) ==
    LET path == handle[w].path
        repo == repos[path]
        name == BRANCHES[VersionOf(call[w].vid).channel]
    IN
    /\ pc[w] = "lookup"
    /\ HeadTarget(repo) # 0
    /\ repos' = [repos EXCEPT ![path].refs = SetRef(@, name, HeadTarget(repo))]
    /\ br' = [br EXCEPT ![w] = [name |-> name, target |-> HeadTarget(repo),
                                created |-> TRUE]]
    /\ Goto(w, "wtinit")
    /\ UNCHANGED <<walks, tmp, call, lang, handle, wt, staged, exc, vhash, hist,
                   ncalls, nfaults>>

\* find_or_create_branch, line 266: branches.get(name)
LookupBranch(w) ==
    LET repo == repos[handle[w].path]
        name == BRANCHES[VersionOf(call[w].vid).channel]
    IN
    /\ pc[w] = "lookup"
    /\ IF name \in DOMAIN repo.refs
          THEN /\ br' = [br EXCEPT ![w] = [name |-> name,
                                            target |-> repo.refs[name],
                                            created |-> FALSE]]
               /\ Goto(w, "wtinit")
          ELSE /\ Goto(w, "create")
               /\ UNCHANGED br
    /\ UNCHANGED <<walks, repos, tmp, call, lang, handle, wt, staged, exc, vhash,
                   hist, ncalls, nfaults>>

\* a branch started at the commit written last
BranchStartLatest(repo) == Len(repo.commits)

\* line 270: self.git_repository.head.peel(), the commit the new branch
\* points at
BranchStart(repo) == HeadTarget(repo)

\* a creation that overwrites a branch that exists
BranchTakenIgnored(repo, name) == FALSE

\* create_branch(name, commit), force left False: a name that is a branch
\* is refused
BranchTaken(repo, name) == name \in DOMAIN repo.refs

\* find_or_create_branch, lines 269-270: create_branch(name, head.peel())
\* raises when HEAD is unborn and when the branch exists
CreateBranch(w) ==
    LET path == handle[w].path
        repo == repos[path]
        name == BRANCHES[VersionOf(call[w].vid).channel]
    IN
    /\ pc[w] = "create"
    /\ IF HeadTarget(repo) = 0 \/ BranchTaken(repo, name)
          THEN /\ Raise(w, IF HeadTarget(repo) = 0 THEN "GitError"
                                                   ELSE "AlreadyExistsError",
                        "finally")
               /\ UNCHANGED <<repos, br>>
          ELSE /\ repos' = [repos EXCEPT ![path].refs =
                               SetRef(@, name, BranchStart(repo))]
               /\ br' = [br EXCEPT ![w] =
                            [name |-> name, target |-> BranchStart(repo),
                             created |-> TRUE]]
               /\ Goto(w, "wtinit")
               /\ UNCHANGED exc
    /\ UNCHANGED <<walks, tmp, call, lang, handle, wt, staged, vhash, hist, ncalls,
                   nfaults>>

\* TemporaryWorktree.__init__, lines 37-44
WorktreeInit(w) ==
    /\ pc[w] = "wtinit"
    /\ \E name \in Uuid4Hex(NamesInUse), dir \in Mkdtemp(tmp) :
          /\ wt' = [wt EXCEPT ![w] = [name |-> name, dir |-> dir, obj |-> FALSE]]
          /\ tmp' = [tmp EXCEPT ![dir] = [exists |-> TRUE, fs |-> {}]]
    /\ Goto(w, "enter")
    /\ UNCHANGED <<walks, repos, call, lang, handle, br, staged, exc, vhash, hist,
                   ncalls, nfaults>>

\* the working directory git makes for a new worktree: the files of the
\* commit HEAD points at
Checkout(tree, wpath) == {File(wpath, DIR)} \cup ExtractTo(tree, wpath)

\* a working directory that starts with the files of the commits written
\* last
CleanWorkdirOverLatest(fs, tree, wpath) ==
    fs \cup UNION {Checkout(c[Len(c)].tree, wpath) :
                     c \in {repos[p].commits : p \in DOMAIN repos} \ {<<>>}}

\* __enter__, lines 51-57: every entry of the tree of HEAD is removed
CleanWorkdir(fs, tree, wpath) ==
    {n \in fs : \A e \in {m.p[1] : m \in tree} : ~IsPrefix(wpath \o <<e>>, n.p)}

\* TemporaryWorktree.__enter__, lines 46-61.  add_worktree makes a branch
\* named after the worktree at the commit of HEAD, and raises when the name
\* is taken or HEAD is unborn; an exception in __enter__ leaves the with
\* statement without __exit__.
Enter(w) ==
    LET path  == handle[w].path
        repo  == repos[path]
        name  == wt[w].name
        dir   == wt[w].dir
        wpath == <<name>>
        tree  == repo.commits[HeadTarget(repo)].tree
    IN
    /\ pc[w] = "enter"
    /\ IF HeadTarget(repo) = 0 \/ name \in DOMAIN repo.refs
                               \/ name \in repo.worktrees
          THEN /\ Raise(w, "GitError", "finally")
               /\ UNCHANGED <<repos, tmp, wt>>
          ELSE /\ repos' = [repos EXCEPT ![path] =
                              [repo EXCEPT !.refs = SetRef(@, name, HeadTarget(repo)),
                                           !.worktrees = @ \cup {name}]]
               /\ tmp' = [tmp EXCEPT ![dir].fs =
                             CleanWorkdir(@ \cup Checkout(tree, wpath), tree, wpath)
                               \cup {File(wpath \o <<EXTRACTED_PREFIX>>, DIR)}]
               /\ wt' = [wt EXCEPT ![w].obj = TRUE]
               /\ Goto(w, "extract")
               /\ UNCHANGED exc
    /\ UNCHANGED <<walks, call, lang, handle, br, staged, vhash, hist, ncalls,
                   nfaults>>

\* the archive a call extracts: file_obj.current_file_path (line 206) or
\* version.source.path (line 240)
PackageOf(c) == IF c.op = "source" THEN SourceOf(c.vid) ELSE ArchiveOf(c.vid)

\* lines 282-285: extract_extension_to_dest into extraction_target_path
Extract(w) ==
    LET dir    == wt[w].dir
        target == <<wt[w].name, EXTRACTED_PREFIX>>
    IN
    /\ pc[w] = "extract"
    /\ tmp' = [tmp EXCEPT ![dir].fs =
                  @ \cup ExtractTo(PackageOf(call[w]), target)]
    /\ Goto(w, "stage")
    /\ UNCHANGED <<walks, repos, call, lang, handle, br, wt, staged, exc, vhash,
                   hist, ncalls, nfaults>>

\* lines 293-317: the paths are listed, those named '.git' renamed, all
\* files added to the index and the tree written
Stage(w) ==
    LET dir   == wt[w].dir
        wpath == <<wt[w].name>>
        fs    == tmp[dir].fs
        files == GetAllFiles(fs, wpath \o <<EXTRACTED_PREFIX>>, wpath)
    IN
    /\ pc[w] = "stage"
    /\ \E hexes \in [1 .. NumRenames(files) -> UuidPool] :
          LET done == RenameLoop(fs, wpath, files, hexes) IN
          /\ tmp' = [tmp EXCEPT ![dir].fs = done.fs]
          /\ IF done.ok
                THEN /\ staged' = [staged EXCEPT ![w].tree =
                                      WriteTree(done.fs, wpath)]
                     /\ Goto(w, "commit")
                     /\ UNCHANGED exc
                ELSE /\ Raise(w, "FileNotFoundError", "exit")
                     /\ UNCHANGED staged
    /\ UNCHANGED <<walks, repos, call, lang, handle, br, wt, vhash, hist, ncalls,
                   nfaults>>


\* the message of the commit, by the entry point
MessageOf(c) ==
    [text |-> IF c.op = "source"
                 THEN "Create new version from source file"
                 ELSE "Create new version from file",
     vid  |-> c.vid]

\* a commit made with no parent, as the first commit of a repository is
ParentsOfNone(branch) == <<>>

\* a parent read anew from the repository when the commit is made
ParentsOfTipNow(branch) ==
    <<Tip(repos[RepositoryPath("1", "addon")], branch.name)>>

\* line 331: the parents of the new commit
ParentsOf(branch) == <<branch.target>>

\* lines 320-335: create_commit(None, ...) writes the commit and moves no
\* reference
CreateCommit(w) ==
    LET path == handle[w].path
        repo == repos[path]
        commit == [tree      |-> staged[w].tree,
                   parents   |-> ParentsOf(br[w]),
                   author    |-> GetAuthor(VersionOf(call[w].vid).author),
                   committer |-> GetAuthor(NoUser),
                   message   |-> MessageOf(call[w])]
    IN
    /\ pc[w] = "commit"
    /\ repos' = [repos EXCEPT ![path].commits = Append(@, commit)]
    /\ staged' = [staged EXCEPT ![w].oid = Len(repo.commits) + 1]
    /\ Goto(w, "settarget")
    /\ UNCHANGED <<walks, tmp, call, lang, handle, br, wt, exc, vhash, hist, ncalls,
                   nfaults>>

\* the record of an event of a call: its pointer update ("set_target") or
\* its end ("done")
Record(w, ev) ==
    [ev |-> ev, w |-> w, op |-> call[w].op, vid |-> call[w].vid,
     addon |-> call[w].addon, ptype |-> call[w].ptype,
     state0 |-> call[w].state0, tip0 |-> call[w].tip0, lang0 |-> call[w].lang0,
     path |-> handle[w].path, open |-> handle[w].open, root |-> handle[w].root,
     branch |-> br[w].name, target |-> br[w].target, created |-> br[w].created,
     oid |-> staged[w].oid, exc |-> exc[w]]

\* a reference written only when it still points where the branch object
\* was read
WriteTargetIfUnmoved(refs, branch, oid) ==
    IF Tip([refs |-> refs], branch.name) = branch.target
       THEN SetRef(refs, branch.name, oid) ELSE refs

\* a pointer update that moves the default branch along
WriteTargetAndHead(refs, branch, oid) ==
    SetRef(SetRef(refs, branch.name, oid), "master", oid)

\* branch.set_target(oid): the reference of the branch is written
WriteTarget(refs, branch, oid) == SetRef(refs, branch.name, oid)

\* line 340: branch.set_target(commit.hex)
SetTarget(w) ==
    LET path == handle[w].path IN
    /\ pc[w] = "settarget"
    /\ repos' = [repos EXCEPT ![path].refs = WriteTarget(@, br[w], staged[w].oid)]
    /\ hist' = Append(hist, Record(w, "set_target"))
    /\ Goto(w, "exit")
    /\ UNCHANGED <<walks, tmp, call, lang, handle, br, wt, staged, exc, vhash,
                   ncalls, nfaults>>

\* TemporaryWorktree.__exit__, lines 63-72, run when the body of the with
\* statement is left, normally or by an exception.  lookup_branch returns
\* None for a name that is no branch.
Exit(w) ==
    LET path == handle[w].path
        repo == repos[path]
        name == wt[w].name
    IN
    /\ pc[w] = "exit"
    /\ tmp' = [tmp EXCEPT ![wt[w].dir] = NoDir]
    /\ repos' = [repos EXCEPT ![path] =
                    [repo EXCEPT !.worktrees = IF wt[w].obj THEN @ \ {name} ELSE @,
                                 !.refs = DelRef(@, name)]]
    /\ IF name \notin DOMAIN repo.refs
          THEN Raise(w, "AttributeError", "finally")
          ELSE /\ Goto(w, IF exc[w] = NoExc THEN "update" ELSE "finally")
               /\ UNCHANGED exc
    /\ UNCHANGED <<walks, call, lang, handle, br, wt, staged, vhash, hist, ncalls,
                   nfaults>>

HexDigit(n) == SubSeq("0123456789abcdef", n + 1, n + 1)

RECURSIVE HexOf(_, _)
\* n written with `width` hexadecimal digits
HexOf(n, width) ==
    IF width = 0 THEN ""
    ELSE HexOf(n \div 16, width - 1) \o HexDigit(n % 16)

\* an abbreviated id
Hex7(oid) == HexOf(oid, 7)

\* commit.hex: the id of the commit, 40 hexadecimal digits
Hex40(oid) == HexOf(oid, 40)

\* lines 218 and 251: version.update(git_hash=commit.hex), or
\* source_git_hash for the sources
UpdateHash(w) ==
    /\ pc[w] = "update"
    /\ vhash' = [vhash EXCEPT ![call[w].vid] =
                    IF call[w].op = "source"
                       THEN [@ EXCEPT !.source_git_hash = Hex40(staged[w].oid)]
                       ELSE [@ EXCEPT !.git_hash = Hex40(staged[w].oid)]]
    /\ Goto(w, "finally")
    /\ UNCHANGED <<walks, repos, tmp, call, lang, handle, br, wt, staged, exc, hist,
                   ncalls, nfaults>>

\* a finally clause that activates nothing
RestoreNothing(l) == [active |-> l.active, saved |-> ""]

\* line 220: translation.activate(current_language)
Restore(l) == [active |-> l.saved, saved |-> ""]

\* lines 219-221: the saved locale is activated again and the call returns
\* or the exception leaves it
Finally(w) ==
    /\ pc[w] = "finally"
    /\ lang' = [lang EXCEPT ![w] =
                   IF call[w].op = "extract" THEN Restore(@) ELSE @]
    /\ hist' = Append(hist, Record(w, "done"))
    /\ call' = [call EXCEPT ![w] = NoCall]
    /\ handle' = [handle EXCEPT ![w] = NoHandle]
    /\ br' = [br EXCEPT ![w] = NoBranch]
    /\ wt' = [wt EXCEPT ![w] = NoWorktree]
    /\ staged' = [staged EXCEPT ![w] = NoStaged]
    /\ exc' = [exc EXCEPT ![w] = NoExc]
    /\ Goto(w, "idle")
    /\ UNCHANGED <<walks, repos, tmp, vhash, ncalls, nfaults>>

\* the steps of a call in flight
Step(w) ==
    \/ CheckExtracted(w)
    \/ MakeDirs(w)
    \/ InitRepository(w)
    \/ CreateRootCommit(w)
    \/ OpenExisting(w)
    \/ LookupBranch(w)
    \/ CreateBranch(w)
    \/ WorktreeInit(w)
    \/ Enter(w)
    \/ Extract(w)
    \/ Stage(w)
    \/ CreateCommit(w)
    \/ SetTarget(w)
    \/ Exit(w)
    \/ UpdateHash(w)
    \/ Finally(w)

-----------------------------------------------------------------------------
(* Failures of the environment: a step raises instead of taking effect *)

Fail(w, name, to) ==
    /\ nfaults < MaxFaults
    /\ nfaults' = nfaults + 1
    /\ Raise(w, name, to)

\* add_worktree raises in __enter__: the with statement is left without
\* __exit__
EnterFails(w) ==
    /\ pc[w] = "enter"
    /\ Fail(w, "GitError", "finally")
    /\ UNCHANGED <<walks, repos, tmp, call, lang, handle, br, wt, staged, vhash,
                   hist, ncalls>>

\* extract_extension_to_dest raises
ExtractFails(w) ==
    /\ pc[w] = "extract"
    /\ Fail(w, "ExtractionError", "exit")
    /\ UNCHANGED <<walks, repos, tmp, call, lang, handle, br, wt, staged, vhash,
                   hist, ncalls>>

\* index.write() or index.write_tree() raises
StageFails(w) ==
    /\ pc[w] = "stage"
    /\ Fail(w, "StagingError", "exit")
    /\ UNCHANGED <<walks, repos, tmp, call, lang, handle, br, wt, staged, vhash,
                   hist, ncalls>>

\* create_commit raises
CreateCommitFails(w) ==
    /\ pc[w] = "commit"
    /\ Fail(w, "CommitCreationError", "exit")
    /\ UNCHANGED <<walks, repos, tmp, call, lang, handle, br, wt, staged, vhash,
                   hist, ncalls>>

\* set_target raises
SetTargetFails(w) ==
    /\ pc[w] = "settarget"
    /\ Fail(w, "BranchConflictError", "exit")
    /\ UNCHANGED <<walks, repos, tmp, call, lang, handle, br, wt, staged, vhash,
                   hist, ncalls>>

\* __exit__ raises in its k-th statement: rmtree (1), prune (2) or the
\* deletion of the branch (3).  What precedes the statement has happened,
\* what follows it has not, and the exception of __exit__ is the one that
\* leaves the with statement.
ExitFails(w) ==
    LET path == handle[w].path
        name == wt[w].name
    IN
    /\ pc[w] = "exit"
    /\ \E k \in 1 .. 3 :
          /\ tmp' = [tmp EXCEPT ![wt[w].dir] = IF k > 1 THEN NoDir ELSE @]
          /\ repos' = [repos EXCEPT ![path].worktrees =
                          IF k > 2 /\ wt[w].obj THEN @ \ {name} ELSE @]
    /\ Fail(w, "SandboxCleanupError", "finally")
    /\ UNCHANGED <<walks, call, lang, handle, br, wt, staged, vhash, hist, ncalls>>

\* version.update raises
UpdateHashFails(w) ==
    /\ pc[w] = "update"
    /\ Fail(w, "DatabaseError", "finally")
    /\ UNCHANGED <<walks, repos, tmp, call, lang, handle, br, wt, staged, vhash,
                   hist, ncalls>>

\* os.makedirs, init_repository, the first create_commit or
\* pygit2.Repository raises: what the earlier statements did stays
OpenFails(w) ==
    /\ pc[w] \in {"makedirs", "init", "root", "reopen"}
    /\ Fail(w, "RepositoryOpenError", "finally")
    /\ UNCHANGED <<walks, repos, tmp, call, lang, handle, br, wt, staged, vhash,
                   hist, ncalls>>

\* branches.get or create_branch raises
BranchFails(w) ==
    /\ pc[w] \in {"lookup", "create"}
    /\ Fail(w, "BranchError", "finally")
    /\ UNCHANGED <<walks, repos, tmp, call, lang, handle, br, wt, staged, vhash,
                   hist, ncalls>>

Fault(w) ==
    \/ OpenFails(w)
    \/ BranchFails(w)
    \/ EnterFails(w)
    \/ ExtractFails(w)
    \/ StageFails(w)
    \/ CreateCommitFails(w)
    \/ SetTargetFails(w)
    \/ ExitFails(w)
    \/ UpdateHashFails(w)

-----------------------------------------------------------------------------
(* The bare accessor: repo = AddonGitRepository(id, type); repo.git_repository *)

\* the caller's translation.activate(l), between calls
Activate(w, l) ==
    /\ pc[w] = "idle"
    /\ l # lang[w].active
    /\ lang' = [lang EXCEPT ![w].active = l]
    /\ UNCHANGED <<walks, repos, tmp, pc, call, handle, br, wt, staged, exc, vhash,
                   hist, ncalls, nfaults>>

Access(w, addon_id, package_type) ==
    /\ pc[w] = "idle"
    /\ ncalls' = ncalls + 1
    /\ call' = [call EXCEPT ![w] =
                   [NoCall EXCEPT !.op = "access", !.addon = addon_id,
                                  !.ptype = package_type,
                                  !.state0 = repos[RepositoryPath(addon_id, package_type)].state]]
    /\ handle' = [handle EXCEPT ![w] =
                     [NoHandle EXCEPT !.path = RepositoryPath(addon_id, package_type)]]
    /\ Goto(w, "open")
    /\ UNCHANGED <<walks, repos, tmp, lang, br, wt, staged, exc, vhash, hist, nfaults>>

-----------------------------------------------------------------------------
(* Spec: workers calling at any time, their calls interleave *)

\* the repository of the versions' add-on
AddonRepo == repos[RepositoryPath("1", "addon")]

RaceVersions == {1, 2, 3}

Next ==
    \E w \in Workers :
       \/ ncalls < MaxCalls /\ \E vid \in RaceVersions : Call(w, vid)
       \/ Step(w)

Spec == Init /\ [][Next]_vars

(* SerialSpec: one call after another, every archive *)

NextSerial ==
    \E w \in Workers :
       \/ Idle /\ ncalls < MaxSerialCalls /\ \E vid \in AllVersions : Call(w, vid)
       \/ Step(w)

SerialSpec == Init /\ [][NextSerial]_vars

(* FaultSpec: one call after another in an environment that may fail *)

FaultVersions == {1, 3, 4}

NextFault ==
    \E w \in Workers :
       \/ Idle /\ ncalls < MaxCalls /\ \E vid \in FaultVersions : Call(w, vid)
       \/ \E l \in Locales : Activate(w, l)
       \/ Step(w)
       \/ Fault(w)

FaultSpec == Init /\ [][NextFault]_vars

(* OpenSpec: workers opening repositories side by side *)

NextOpen ==
    \E w \in Workers :
       \/ ncalls < MaxSerialCalls
            /\ \E a \in AddonIds, t \in PackageTypes : Access(w, a, t)
       \/ CheckExtracted(w)
       \/ MakeDirs(w)
       \/ InitRepository(w)
       \/ CreateRootCommit(w)
       \/ OpenExisting(w)
       \/ Finally(w)

OpenSpec == Init /\ [][NextOpen]_vars

(* HashSpec: calls of both entry points one after another in an environment*)
(* that may fail                                                           *)

HashVersions == {1, 4}

NextHash ==
    \E w \in Workers :
       \/ Idle /\ ncalls < MaxCalls /\ \E vid \in HashVersions : Call(w, vid)
       \/ Idle /\ ncalls < MaxCalls /\ \E vid \in HashVersions : CallSource(w, vid)
       \/ Step(w)
       \/ Fault(w)

HashSpec == Init /\ [][NextHash]_vars

(* TreeSpec: calls one after another, and a reader walking trees of the    *)
(* repository at any time                                                  *)

TreeVersions == {2, 3, 6}

\* the trees a reader gets from the commits: commit.tree and get_root_tree
WalkTrees(repo) ==
    {TreeOid(repo.commits[c].tree) : c \in 1 .. Len(repo.commits)}
      \cup {TreeOid(GetRootTree(repo.commits[c].tree).tree) :
               c \in {d \in 1 .. Len(repo.commits) :
                         GetRootTree(repo.commits[d].tree).ok}}

\* list(repo.iter_tree(tree))
Walk(tree) ==
    /\ Len(walks) < MaxWalks
    /\ walks' = Append(walks, [tree |-> tree,
                               out |-> IterTree(AddonRepo, tree),
                               ncommits |-> Len(AddonRepo.commits)])
    /\ UNCHANGED <<repos, tmp, pc, call, lang, handle, br, wt, staged, exc,
                   vhash, hist, ncalls, nfaults>>

NextTree ==
    \/ \E w \in Workers :
          \/ Idle /\ ncalls < MaxCalls /\ \E vid \in TreeVersions : Call(w, vid)
          \/ Step(w)
    \/ \E tree \in WalkTrees(AddonRepo) : Walk(tree)

TreeSpec == Init /\ [][NextTree]_vars

-----------------------------------------------------------------------------
(* What the claims speak of *)

Channels == {"listed", "unlisted"}

RECURSIVE Log(_, _)
\* git log: the commits from oid on, each followed by its first parent
Log(commits, oid) ==
    IF oid = 0 THEN <<>>
    ELSE <<oid>> \o (IF commits[oid].parents = <<>> THEN <<>>
                     ELSE Log(commits, commits[oid].parents[1]))

\* the calls on a channel that returned, in the order they were made
Returned(ch) ==
    SelectSeq(hist, LAMBDA h : /\ h.ev = "done"
                               /\ h.op = "extract"
                               /\ h.exc = NoExc
                               /\ VersionOf(h.vid).channel = ch)

-----------------------------------------------------------------------------
(* C1: after N calls made one after another have returned on a channel,    *)
(* the log of the channel's branch is N commits followed by the root       *)
(* commit; the i-th commit from the root is the commit of the i-th call,   *)
(* carries its message, and has one parent: the tip of the branch as it    *)
(* was just before the call (the root commit when there was no branch).    *)
C1_LinearHistory ==
    Idle =>
      \A ch \in Channels :
         LET repo  == AddonRepo
             calls == Returned(ch)
             N     == Len(calls)
             log   == Log(repo.commits, Tip(repo, BRANCHES[ch]))
             root  == HeadTarget(repo)
         IN IF BRANCHES[ch] \notin DOMAIN repo.refs THEN N = 0
            ELSE /\ Len(log) = N + 1
                 /\ log[N + 1] = root
                 /\ repo.commits[root].parents = <<>>
                 /\ \A i \in 1 .. N :
                       LET oid == log[N + 1 - i] IN
                       /\ oid = calls[i].oid
                       /\ repo.commits[oid].message = MessageOf(calls[i])
                       /\ repo.commits[oid].parents =
                             <<IF calls[i].tip0 = 0 THEN root ELSE calls[i].tip0>>

\* three calls on one channel have returned
C1_Witness == Idle /\ Len(Returned("listed")) = 3

-----------------------------------------------------------------------------
(* C2: when a call that made a temporary directory is about to return or   *)
(* raise, the directory is gone, the worktree is pruned and the branch     *)
(* named after the worktree is deleted.                                    *)
C2_NoSandboxLeak ==
    \A w \in Workers :
       (pc[w] \in {"update", "finally"} /\ wt[w].dir # "") =>
          /\ ~tmp[wt[w].dir].exists
          /\ wt[w].name \notin repos[handle[w].path].worktrees
          /\ wt[w].name \notin DOMAIN repos[handle[w].path].refs

-----------------------------------------------------------------------------
\* the positions in hist of the ends of the extraction calls
Ends == {i \in 1 .. Len(hist) : hist[i].ev = "done" /\ hist[i].op = "extract"}

\* the positions in hist of the pointer updates
Updates == {i \in 1 .. Len(hist) : hist[i].ev = "set_target"}

\* the position of the pointer update of the call that ended at position i
UpdateOf(i) ==
    CHOOSE u \in Updates : hist[u].path = hist[i].path /\ hist[u].oid = hist[i].oid

\* two calls that ended, both having read the same branch at the same tip
Raced(i, j) ==
    /\ i \in Ends /\ j \in Ends /\ i # j
    /\ hist[i].path = hist[j].path
    /\ hist[i].branch # "" /\ hist[i].branch = hist[j].branch
    /\ hist[i].target = hist[j].target

SeqRange(seq) == {seq[k] : k \in 1 .. Len(seq)}

(* C3: a branch points at the commit of the pointer update made last.      *)
(* When two calls have read the same branch at the same tip T, both        *)
(* return, their commits are two commits with T as sole parent, the one    *)
(* whose pointer update came last is in the log of the branch and the      *)
(* other is in the object store but not in the log of the branch.          *)
C3_LastWriterWins ==
    /\ \A u \in Updates :
          (\A v \in Updates : (hist[v].path = hist[u].path
                                 /\ hist[v].branch = hist[u].branch) => v <= u)
             => Tip(repos[hist[u].path], hist[u].branch) = hist[u].oid
    /\ \A i, j \in Ends :
          Raced(i, j) =>
             LET repo == repos[hist[i].path]
                 T    == hist[i].target
                 log  == SeqRange(Log(repo.commits, Tip(repo, hist[i].branch)))
                 last == IF UpdateOf(i) > UpdateOf(j) THEN i ELSE j
                 lost == IF UpdateOf(i) > UpdateOf(j) THEN j ELSE i
             IN /\ hist[i].exc = NoExc /\ hist[j].exc = NoExc
                /\ hist[i].oid # hist[j].oid
                /\ repo.commits[hist[i].oid].parents = <<T>>
                /\ repo.commits[hist[j].oid].parents = <<T>>
                /\ hist[last].oid \in log
                /\ hist[lost].oid \notin log
                /\ hist[lost].oid \in 1 .. Len(repo.commits)

\* two calls that read the branch at the same tip have both ended
C3_Witness ==
    \E i, j \in Ends : Raced(i, j) /\ hist[i].target >= 1

-----------------------------------------------------------------------------
\* the tip a branch shows once a call that found it at tip0 has resolved it:
\* a branch that did not exist is made at the root commit
TipBefore(w) ==
    IF call[w].tip0 = 0 THEN HeadTarget(repos[handle[w].path]) ELSE call[w].tip0

InSandboxErrors ==
    {"ExtractionError", "StagingError", "FileNotFoundError", "CommitCreationError"}

(* C4: when a call, with no other call in flight, is about to raise an     *)
(* error of extraction, of staging or of commit creation, the branch of    *)
(* its channel points where it pointed before the call (at the root        *)
(* commit, when the call has made the branch).                             *)
C4_FailedCallKeepsTip ==
    \A w \in Workers :
       (pc[w] = "finally" /\ exc[w] \in InSandboxErrors) =>
          Tip(repos[handle[w].path], br[w].name) = TipBefore(w)

\* a call fails in its sandbox on a branch an earlier call has advanced
C4_Witness ==
    \E w \in Workers :
       /\ pc[w] = "finally" /\ exc[w] \in InSandboxErrors
       /\ call[w].tip0 > 1

(* C5: an error of the release of the sandbox is never the exception that  *)
(* ends the call: an error raised in the sandbox stays the one raised, and *)
(* a call whose commit is on its branch returns.                           *)
C5_CleanupNeverRaises ==
    \A w \in Workers :
       pc[w] = "finally" => exc[w] # "SandboxCleanupError"

-----------------------------------------------------------------------------
HexDigits == {"0", "1", "2", "3", "4", "5", "6", "7", "8", "9",
              "a", "b", "c", "d", "e", "f"}

IsHex(str) == \A k \in 1 .. Len(str) : SubSeq(str, k, k) \in HexDigits

\* '.git.' followed by 8 hex characters
IsRenamedDotGit(seg) ==
    /\ Len(seg) = Len(DOTGIT) + 1 + HexLen
    /\ SubSeq(seg, 1, Len(DOTGIT) + 1) = DOTGIT \o "."
    /\ IsHex(SubSeq(seg, Len(DOTGIT) + 2, Len(seg)))

\* a path with each renamed segment read as '.git' again
OriginalPath(path) ==
    [k \in 1 .. Len(path) |-> IF IsRenamedDotGit(path[k]) THEN DOTGIT ELSE path[k]]

\* the files of an archive below the extraction prefix
Extracted(archive) == {File(<<EXTRACTED_PREFIX>> \o f.p, f.c) : f \in archive}

\* a tree holds the files of the archive, each under its path or under its
\* path with the segments '.git' renamed, and nothing else
HoldsExactly(tree, archive) ==
    /\ \A n \in tree : \A k \in 1 .. Len(n.p) : n.p[k] # DOTGIT
    /\ Cardinality(tree) = Cardinality(archive)
    /\ {File(OriginalPath(n.p), n.c) : n \in tree} = Extracted(archive)
    /\ \A n \in tree : \A k \in 1 .. Len(n.p) :
          n.p[k] = OriginalPath(n.p)[k] \/ OriginalPath(n.p)[k] = DOTGIT

\* a sandbox exists from TemporaryWorktree.__init__ to the end of __exit__
Live(w) ==
    pc[w] \in {"enter", "extract", "stage", "commit", "settarget", "exit"}

(* C6: two sandboxes that exist at the same time have different temporary  *)
(* directories and different worktree (branch) names, and the tree of the  *)
(* commit of every call holds the files of the call's own archive and no   *)
(* other file.                                                             *)
C6_Isolation ==
    /\ \A a, b \in Workers :
          (a # b /\ Live(a) /\ Live(b)) =>
             /\ wt[a].dir # wt[b].dir
             /\ wt[a].name # wt[b].name
    /\ \A i \in Updates :
          HoldsExactly(repos[hist[i].path].commits[hist[i].oid].tree,
                       ArchiveOf(hist[i].vid))

\* a call has committed its archive while the sandbox of another call, with
\* another archive extracted into it, existed
C6_Witness ==
    \E a, b \in Workers :
       /\ a # b /\ pc[a] = "settarget" /\ pc[b] = "stage"
       /\ call[a].vid # call[b].vid

(* C7: the commit of a call that has made its branch has the root commit   *)
(* as sole parent; a branch exists only when a call for its channel has    *)
(* resolved it; and the tip of a channel's branch changes only in a step   *)
(* (branch creation or pointer update) of a call for that channel.         *)
C7_ChannelsIndependent ==
    /\ [](/\ \A i \in Updates :
               hist[i].created =>
                  repos[hist[i].path].commits[hist[i].oid].parents
                     = <<HeadTarget(repos[hist[i].path])>>
          /\ \A ch \in Channels :
               BRANCHES[ch] \in DOMAIN AddonRepo.refs =>
                  \/ \E w \in Workers : br[w].name = BRANCHES[ch]
                  \/ \E i \in 1 .. Len(hist) : hist[i].branch = BRANCHES[ch])
    /\ [][\A ch \in Channels :
             Tip(AddonRepo, BRANCHES[ch])' # Tip(AddonRepo, BRANCHES[ch]) =>
                \E w \in Workers :
                   /\ pc[w] \in {"create", "settarget"}
                   /\ pc'[w] # pc[w]
                   /\ VersionOf(call[w].vid).channel = ch]_vars

\* a call has made the branch of its channel and committed on it while the
\* branch of the other channel pointed at a later commit than the root
C7_Witness ==
    \E i \in Updates :
       /\ hist[i].created
       /\ \E ch \in Channels :
             /\ BRANCHES[ch] # hist[i].branch
             /\ Tip(AddonRepo, BRANCHES[ch]) > HeadTarget(AddonRepo)
             /\ Tip(AddonRepo, BRANCHES[ch]) < hist[i].oid

-----------------------------------------------------------------------------
HasDotGit(archive) == \E f \in archive : \E k \in 1 .. Len(f.p) : f.p[k] = DOTGIT

(* C8: every call returns, whatever the archive, a '.git' directory inside *)
(* a '.git' directory included, and the tree it commits has no segment    *)
(* '.git': each appears as '.git.' and 8 hex characters, every other path  *)
(* is as in the archive.                                                   *)
C8_SanitizedAtEveryDepth ==
    \A i \in Ends :
       /\ hist[i].exc = NoExc
       /\ HoldsExactly(repos[hist[i].path].commits[hist[i].oid].tree,
                       ArchiveOf(hist[i].vid))

(* C9 as stated: for every archive extracted into a new repository, the    *)
(* tree of the commit, the prefix 'extracted' stripped, is the files of    *)
(* the archive with their contents.                                        *)
C9_TreeEqualsArchive ==
    \A i \in Ends :
       (hist[i].state0 = "absent" /\ hist[i].exc = NoExc) =>
          GetRootTree(repos[hist[i].path].commits[hist[i].oid].tree)
             = [ok |-> TRUE, tree |-> ArchiveOf(hist[i].vid)]

(* C9, amended: for every archive that holds a file and no path with a     *)
(* segment '.git', extracted into a new repository, the call returns and   *)
(* the tree of its commit, the prefix 'extracted' stripped, is the files   *)
(* of the archive with their contents.                                     *)
C9_TreeEqualsPlainArchive ==
    \A i \in Ends :
       LET archive == ArchiveOf(hist[i].vid) IN
       (hist[i].state0 = "absent" /\ archive # {} /\ ~HasDotGit(archive)) =>
          /\ hist[i].exc = NoExc
          /\ GetRootTree(repos[hist[i].path].commits[hist[i].oid].tree)
                = [ok |-> TRUE, tree |-> archive]

\* an archive of two files has been committed into a new repository
C9_Witness ==
    \E i \in Ends :
       /\ hist[i].state0 = "absent" /\ hist[i].exc = NoExc
       /\ Cardinality(ArchiveOf(hist[i].vid)) = 2
       /\ ~HasDotGit(ArchiveOf(hist[i].vid))

-----------------------------------------------------------------------------
\* the positions in hist of the ends of the accesses to git_repository
AccessEnds == {i \in 1 .. Len(hist) : hist[i].ev = "done" /\ hist[i].op = "access"}

(* C10: a repository that is initialized holds one commit, the root commit *)
(* HEAD points at.  An access to git_repository begun once the repository  *)
(* of its add-on id and package type is initialized returns a handle, on   *)
(* the path every other access with the same id and type has, with the     *)
(* root commit every earlier handle that saw a root commit has.            *)
C10_OpenIdempotent ==
    /\ \A p \in RepoPaths :
          repos[p].state = "ready" =>
             Len(repos[p].commits) = 1 /\ HeadTarget(repos[p]) = 1
    /\ \A i, j \in AccessEnds :
          ( /\ i # j
            /\ hist[i].addon = hist[j].addon /\ hist[i].ptype = hist[j].ptype
            /\ hist[j].state0 = "ready" ) =>
             /\ hist[j].exc = NoExc /\ hist[j].open
             /\ hist[j].path = hist[i].path
             /\ hist[j].root = HeadTarget(repos[hist[j].path])
             /\ hist[i].root # 0 => hist[j].root = hist[i].root

\* a repository has been opened by the access that initialized it and again
\* by an access begun afterwards
C10_Witness ==
    \E i, j \in AccessEnds :
       /\ i < j
       /\ hist[i].addon = hist[j].addon /\ hist[i].ptype = hist[j].ptype
       /\ hist[i].state0 = "absent" /\ hist[i].open
       /\ hist[j].state0 = "ready" /\ hist[j].open

-----------------------------------------------------------------------------
\* the commits the calls have written: every commit but the first of a
\* repository
CallCommits(repo) == {oid \in 1 .. Len(repo.commits) : repo.commits[oid].message.vid # 0}

(* C11: every commit a call has written has the service identity as        *)
(* committer, whoever the author is; its author has the name and email of  *)
(* the user the call was given, and is the service identity when the call  *)
(* was given no user.                                                      *)
C11_AuthorAndCommitter ==
    \A p \in RepoPaths : \A oid \in CallCommits(repos[p]) :
       LET commit == repos[p].commits[oid]
           user   == VersionOf(commit.message.vid).author
       IN /\ commit.committer.name = "Mozilla Add-ons Robot"
          /\ commit.committer.email = "addons-dev-automation+github@mozilla.com"
          /\ user # NoUser => /\ commit.author.name = user.name
                              /\ commit.author.email = user.email
          /\ user = NoUser => commit.author = commit.committer

\* a commit authored by a user and a commit authored by no user are both in
\* the repository
C11_Witness ==
    \E a, b \in CallCommits(AddonRepo) :
       /\ AddonRepo.commits[a].author.name = "A"
       /\ AddonRepo.commits[a].author.email = "a@x.com"
       /\ AddonRepo.commits[a].committer # AddonRepo.commits[a].author
       /\ VersionOf(AddonRepo.commits[b].message.vid).author = NoUser

-----------------------------------------------------------------------------
(* C12: in a repository that has its first commit, the default branch      *)
(* (HEAD, master) points at that first commit, which has no parent and     *)
(* whose log is that one commit, whatever calls have committed on whatever *)
(* channels.                                                               *)
C12_DefaultBranchStaysAtRoot ==
    \A p \in RepoPaths :
       LET repo == repos[p] IN
       repo.commits # <<>> =>
          /\ HeadTarget(repo) = 1
          /\ repo.commits[1] = RootCommit
          /\ repo.commits[HeadTarget(repo)].parents = <<>>
          /\ Log(repo.commits, HeadTarget(repo)) = <<1>>

\* calls on both channels have moved their branches past the root commit
C12_Witness ==
    /\ Idle
    /\ \A ch \in Channels : Tip(AddonRepo, BRANCHES[ch]) > HeadTarget(AddonRepo)
    /\ HeadTarget(AddonRepo) = 1

-----------------------------------------------------------------------------
(* C13: in every repository the first commit has no parent and every other *)
(* commit has one parent, a commit written before it; following the        *)
(* parents from the tip of any branch ends at the first commit.            *)
C13_TipsReachRoot ==
    \A p \in RepoPaths :
       LET repo == repos[p] IN
       /\ \A oid \in 1 .. Len(repo.commits) :
             IF oid = 1 THEN repo.commits[oid].parents = <<>>
             ELSE /\ Len(repo.commits[oid].parents) = 1
                  /\ repo.commits[oid].parents[1] \in 1 .. oid - 1
       /\ \A name \in DOMAIN repo.refs :
             LET log == Log(repo.commits, repo.refs[name]) IN
             /\ log # <<>>
             /\ log[Len(log)] = 1

\* two calls have committed on the same tip of one branch: one of the two
\* commits is the tip, the other is on no branch
C13_Witness ==
    /\ Idle
    /\ \E a, b \in CallCommits(AddonRepo) :
          /\ a # b
          /\ AddonRepo.commits[a].parents = AddonRepo.commits[b].parents
          /\ \E ch \in Channels : Tip(AddonRepo, BRANCHES[ch]) = b

-----------------------------------------------------------------------------
\* the last step of a call to extract_and_commit_from_version of worker w
Leaves(w) == pc[w] = "finally" /\ pc'[w] = "idle" /\ call[w].op = "extract"

(* C14: when a call to extract_and_commit_from_version ends, by returning  *)
(* or by raising at whatever step, the locale active in its thread is the  *)
(* locale that was active when the call began.                             *)
C14_LocaleRestored ==
    [][\A w \in Workers : Leaves(w) => lang'[w].active = call[w].lang0]_vars

\* two calls made under a locale other than en-US have ended, one by
\* returning and one by raising
C14_Witness ==
    \E i, j \in Ends :
       /\ hist[i].lang0 = "fr" /\ hist[i].exc = NoExc
       /\ hist[j].lang0 = "fr" /\ hist[j].exc # NoExc
       /\ \A w \in Workers : pc[w] = "idle" /\ lang[w].active = "fr"

-----------------------------------------------------------------------------
\* the nodes below the root of a tree: its files and its directories, each
\* by the segments of its path
NodesOf(files) ==
    UNION {{SubSeq(f.p, 1, k) : k \in 1 .. Len(f.p)} : f \in files}

RECURSIVE Slashed(_)
\* the segments of a path written with '/' between them
Slashed(segs) ==
    IF Len(segs) = 1 THEN segs[1]
    ELSE segs[1] \o "/" \o Slashed(Tail(segs))

\* the node a record of a walk of `files` is about
NodeOf(files, record) ==
    CHOOSE q \in NodesOf(files) : Slashed(q) = record.path

IsFileOf(files, q) == \E f \in files : f.p = q

Parent(q) == SubSeq(q, 1, Len(q) - 1)

\* what a walk must have yielded but for the order of siblings: a record
\* for every node and no other, under its full path; a directory without
\* blob and followed at once by all that is below it, a file with its blob
WalkedPreOrder(files, out) ==
    /\ Len(out) = Cardinality(NodesOf(files))
    /\ {out[i].path : i \in 1 .. Len(out)} = {Slashed(q) : q \in NodesOf(files)}
    /\ \A i \in 1 .. Len(out) :
          LET q     == NodeOf(files, out[i])
              below == {d \in NodesOf(files) : IsPrefix(q, d) /\ d # q}
          IN /\ out[i].tree_entry.name = Basename(q)
             /\ IF IsFileOf(files, q)
                   THEN /\ out[i].tree_entry.type = "blob"
                        /\ out[i].blob.kind = "blob"
                        /\ File(q, out[i].blob.data) \in files
                   ELSE /\ out[i].tree_entry.type = "tree"
                        /\ out[i].blob = NoBlob
                        /\ i + Cardinality(below) <= Len(out)
                        /\ \A j \in i + 1 .. i + Cardinality(below) :
                              NodeOf(files, out[j]) \in below

\* the records of the same directory's entries, taken two by two in the
\* order they were yielded
Siblings(files, out) ==
    {ij \in (1 .. Len(out)) \X (1 .. Len(out)) :
        /\ ij[1] < ij[2]
        /\ Parent(NodeOf(files, out[ij[1]])) = Parent(NodeOf(files, out[ij[2]]))}

(* C15 as stated: a walk yields one record for every tree and blob below   *)
(* the root, under its full path, depth first, a directory (blob = None)   *)
(* at once before all that is below it, a file with its blob, and the      *)
(* entries of one directory in the order of their names.                   *)
C15_PreOrderByName ==
    \A k \in 1 .. Len(walks) :
       LET files == walks[k].tree.files
           out   == walks[k].out
       IN /\ WalkedPreOrder(files, out)
          /\ \A ij \in Siblings(files, out) :
                BytesLess(out[ij[1]].tree_entry.name, out[ij[2]].tree_entry.name)

\* the name of an entry as git compares it
Canonical(entry) ==
    entry.name \o (IF entry.type = "tree" THEN "/" ELSE "")

(* C15, amended: as above, the entries of one directory being yielded in   *)
(* the order the tree object has them: by name, byte by byte, the name of  *)
(* a directory compared as if it ended with '/'.                           *)
C15_PreOrderCanonical ==
    \A k \in 1 .. Len(walks) :
       LET files == walks[k].tree.files
           out   == walks[k].out
       IN /\ WalkedPreOrder(files, out)
          /\ \A ij \in Siblings(files, out) :
                BytesLess(Canonical(out[ij[1]].tree_entry),
                          Canonical(out[ij[2]].tree_entry))

\* a tree with directories in directories, and with a file whose name
\* starts with the name of a directory next to it, has been walked
C15_Witness ==
    \E k \in 1 .. Len(walks) :
       /\ \E i \in 1 .. Len(walks[k].out) : walks[k].out[i].path = "_locales/de/messages.json"
       /\ \E i \in 1 .. Len(walks[k].out) : walks[k].out[i].path = "icons/LICENSE"
       /\ \E i \in 1 .. Len(walks[k].out) : walks[k].out[i].path = "icons.txt"

-----------------------------------------------------------------------------
\* a step of find_or_create_branch of worker w
Resolves(w) == pc[w] \in {"lookup", "create"} /\ pc'[w] # pc[w]

(* C16: a step of find_or_create_branch leaves the tip of every branch     *)
(* that exists where it is, a branch made by another call since the lookup *)
(* included, and the Branch object it returns points at the tip the branch *)
(* has.                                                                    *)
C16_ExistingBranchUntouched ==
    [][\A w \in Workers :
         Resolves(w) =>
            LET before == repos[handle[w].path]
                after  == repos'[handle[w].path]
            IN /\ \A name \in DOMAIN before.refs :
                     /\ name \in DOMAIN after.refs
                     /\ after.refs[name] = before.refs[name]
               /\ pc'[w] = "wtinit" =>
                     /\ br'[w].target = Tip(after, br'[w].name)
                     /\ ~br'[w].created => br'[w].target = Tip(before, br'[w].name)]_vars

\* a call that found no branch comes to create it once another call has
\* made the branch and committed on it
C16_Witness ==
    \E w \in Workers :
       /\ pc[w] = "finally" /\ exc[w] = "AlreadyExistsError"
       /\ Tip(repos[handle[w].path], BRANCHES[VersionOf(call[w].vid).channel])
             > HeadTarget(repos[handle[w].path])

-----------------------------------------------------------------------------
\* the hash a call stores: git_hash, or source_git_hash for the sources
StoredHash(h, op) == IF op = "source" THEN h.source_git_hash ELSE h.git_hash

\* the hash the other entry point stores
OtherHash(h, op) == IF op = "source" THEN h.git_hash ELSE h.source_git_hash

(* C17: when a call of either entry point, no other call in flight, is     *)
(* about to return, the hash of its version (git_hash, source_git_hash for *)
(* the sources) is the id of the commit the call made, 40 hexadecimal      *)
(* digits; when it is about to raise, the hashes of the version are what   *)
(* they were before the call; and a hash is written only once the branch   *)
(* points at the commit and nothing of the sandbox remains.                *)
C17_HashPersistedLast ==
    /\ [](\A w \in Workers :
            (pc[w] = "finally" /\ call[w].op \in {"extract", "source"}) =>
               LET stored == vhash[call[w].vid]
                   repo   == repos[handle[w].path]
               IN IF exc[w] = NoExc
                     THEN /\ StoredHash(stored, call[w].op) = Hex40(staged[w].oid)
                          /\ Len(StoredHash(stored, call[w].op)) = 40
                          /\ IsHex(StoredHash(stored, call[w].op))
                          /\ staged[w].oid \in CallCommits(repo)
                          /\ repo.commits[staged[w].oid].message = MessageOf(call[w])
                          /\ OtherHash(stored, call[w].op) = OtherHash(call[w].hash0, call[w].op)
                     ELSE stored = call[w].hash0)
    /\ [][\A w \in Workers :
             (pc[w] # "idle" /\ vhash' # vhash) =>
                LET repo == repos[handle[w].path] IN
                /\ Tip(repo, br[w].name) = staged[w].oid
                /\ staged[w].oid # 0
                /\ ~tmp[wt[w].dir].exists
                /\ wt[w].name \notin repo.worktrees
                /\ wt[w].name \notin DOMAIN repo.refs]_vars

\* a version whose hash an earlier call has stored is extracted again by a
\* call that raises once its commit is on the branch
C17_Witness ==
    \E w \in Workers :
       /\ pc[w] = "finally" /\ exc[w] # NoExc
       /\ call[w].op \in {"extract", "source"}
       /\ StoredHash(call[w].hash0, call[w].op) # ""
       /\ Tip(repos[handle[w].path], br[w].name) = staged[w].oid
       /\ staged[w].oid # 0

-----------------------------------------------------------------------------
-----------------------------------------------------------------------------
\* the paths of the files of an archive
PathsIn(archive) == {f.p : f \in archive}

(* C19: after calls made one after another have returned on a channel, the *)
(* tree of the commit of the k-th of them holds the files of the archive   *)
(* of the k-th call (a segment '.git' under its new name) and no other     *)
(* file: a file of the archive of an earlier call that the k-th archive    *)
(* does not have is not in it.                                             *)
C19_FullTreeSnapshot ==
    Idle =>
      \A ch \in Channels :
         LET calls == Returned(ch) IN
         \A k \in 1 .. Len(calls) :
            LET tree == AddonRepo.commits[calls[k].oid].tree IN
            /\ HoldsExactly(tree, ArchiveOf(calls[k].vid))
            /\ \A j \in 1 .. k - 1 :
                  \A q \in PathsIn(ArchiveOf(calls[j].vid))
                              \ PathsIn(ArchiveOf(calls[k].vid)) :
                     \A n \in tree :
                        OriginalPath(n.p) # <<EXTRACTED_PREFIX>> \o q

\* an archive without a file the archive before it had has been committed
\* on the same channel, and after it an archive that has the file again
C19_Witness ==
    /\ Idle
    /\ \E ch \in Channels :
          LET calls == Returned(ch) IN
          /\ Len(calls) = 3
          /\ PathsIn(ArchiveOf(calls[1].vid)) \ PathsIn(ArchiveOf(calls[2].vid)) # {}
          /\ PathsIn(ArchiveOf(calls[3].vid)) \ PathsIn(ArchiveOf(calls[2].vid)) # {}
          /\ ArchiveOf(calls[2].vid) # {}

-----------------------------------------------------------------------------
\* the commits of a repository that have no parent
RootCommits(repo) ==
    {oid \in 1 .. Len(repo.commits) : repo.commits[oid].parents = <<>>}

(* C20: when an access to git_repository is about to return a handle, HEAD *)
(* of the repository points at a commit with no parent and an empty tree;  *)
(* and a repository never holds two commits without parent.                *)
C20_HandleHasRootCommit ==
    /\ \A w \in Workers :
          (pc[w] = "finally" /\ call[w].op = "access" /\ exc[w] = NoExc) =>
             LET repo == repos[handle[w].path] IN
             /\ handle[w].open
             /\ HeadTarget(repo) # 0
             /\ repo.commits[HeadTarget(repo)].parents = <<>>
             /\ repo.commits[HeadTarget(repo)].tree = {}
    /\ \A p \in RepoPaths : Cardinality(RootCommits(repos[p])) <= 1

-----------------------------------------------------------------------------
\* the names of the channel branches
ChannelBranches == {BRANCHES[ch] : ch \in Channels}

(* C21: when a call is about to raise, the channel branches of the         *)
(* repository are those it had when the call began: a call that found no   *)
(* branch for its channel and failed in extraction, staging or commit      *)
(* leaves no branch for that channel.                                      *)
C21_FailedCallKeepsBranches ==
    \A w \in Workers :
       (pc[w] = "finally" /\ call[w].op = "extract" /\ exc[w] # NoExc) =>
          DOMAIN repos[handle[w].path].refs \cap ChannelBranches
             = call[w].branches0 \cap ChannelBranches

-----------------------------------------------------------------------------
(* C22: when a call has extracted its archive and comes to list and rename *)
(* the paths, every directory is listed before what is below it, and the   *)
(* loop finds every listed path named '.git' where the list has it when    *)
(* it comes to rename it, whatever it has renamed before.                  *)
C22_ListedPathsStillExist ==
    \A w \in Workers :
       pc[w] = "stage" =>
          LET wpath == <<wt[w].name>>
              fs    == tmp[wt[w].dir].fs
              files == GetAllFiles(fs, wpath \o <<EXTRACTED_PREFIX>>, wpath)
          IN /\ \A i, j \in 1 .. Len(files) :
                   (IsPrefix(files[i], files[j]) /\ i # j) => i < j
             /\ \A hexes \in [1 .. NumRenames(files) -> UuidPool] :
                   RenameLoop(fs, wpath, files, hexes).ok

-----------------------------------------------------------------------------
\* the branches a repository is meant to keep
LastingBranches == {"master"} \cup ChannelBranches

(* C23: a branch named after a worktree points at the first commit of the  *)
(* repository as long as it exists, and when no call is in flight the      *)
(* branches of every repository are among master, listed and unlisted.     *)
C23_EphemeralBranchAtRoot ==
    /\ \A p \in RepoPaths :
          \A name \in DOMAIN repos[p].refs \ LastingBranches :
             /\ repos[p].refs[name] = 1
             /\ repos[p].commits[1].parents = <<>>
    /\ Idle => \A p \in RepoPaths : DOMAIN repos[p].refs \subseteq LastingBranches

-----------------------------------------------------------------------------
\* the steps of a call in the order the statement gives them: resolve the
\* branch, acquire the sandbox, extract, sanitize stage and write the tree,
\* create the commit, update the pointer, release the sandbox, return
StageOf(at) ==
    CASE at \in {"lookup", "create"}  -> 1
      [] at \in {"wtinit", "enter"}   -> 2
      [] at = "extract"               -> 3
      [] at = "stage"                 -> 4
      [] at = "commit"                -> 5
      [] at = "settarget"             -> 6
      [] at = "exit"                  -> 7
      [] at \in {"update", "finally"} -> 8
      [] OTHER                        -> 0

\* the sandbox of worker w is there: its directory, its worktree and the
\* branch named after it
SandboxHeld(w) ==
    /\ tmp[wt[w].dir].exists
    /\ wt[w].name \in repos[handle[w].path].worktrees
    /\ wt[w].name \in DOMAIN repos[handle[w].path].refs

(* C24: a call takes its steps in the order resolve, acquire, extract,     *)
(* stage, commit, update, release, return, none twice and, as long as      *)
(* nothing raises, none left out; the Branch object is the one resolved    *)
(* until the pointer is updated; when the pointer is about to be updated   *)
(* the commit exists, with the tip captured at resolution as only parent   *)
(* and the tree staged, and the sandbox is still held; and the channel     *)
(* branch moves to a commit of a call only in that step.                   *)
C24_StepOrder ==
    /\ [][\A w \in Workers :
             (pc'[w] # pc[w] /\ StageOf(pc[w]) > 0 /\ pc'[w] # "idle") =>
                /\ StageOf(pc'[w]) >= StageOf(pc[w])
                /\ StageOf(pc'[w]) = StageOf(pc[w]) => pc[w] \in {"lookup", "wtinit", "update"}
                /\ exc'[w] = NoExc => StageOf(pc'[w]) <= StageOf(pc[w]) + 1
                /\ (StageOf(pc[w]) \in 2 .. 6 /\ pc[w] # "wtinit") => br'[w] = br[w]]_vars
    /\ [](\A w \in Workers :
            pc[w] = "settarget" =>
               LET repo == repos[handle[w].path] IN
               /\ staged[w].oid \in 1 .. Len(repo.commits)
               /\ repo.commits[staged[w].oid].parents = <<br[w].target>>
               /\ repo.commits[staged[w].oid].tree = staged[w].tree
               /\ SandboxHeld(w))
    /\ [][\A w \in Workers :
             LET name  == BRANCHES[VersionOf(call[w].vid).channel]
                 after == Tip(repos'[RepositoryPath("1", "addon")], name)
             IN
             ( /\ pc'[w] # pc[w] /\ call[w].op = "extract"
               /\ after # Tip(AddonRepo, name)
               /\ pc[w] # "create" ) =>
                /\ pc[w] = "settarget" /\ pc'[w] = "exit"
                /\ after = staged[w].oid
                /\ SandboxHeld(w)]_vars

\* a call is about to update the pointer of a branch that another call has
\* advanced since this call captured its tip
C24_Witness ==
    \E w \in Workers :
       /\ pc[w] = "settarget"
       /\ Tip(repos[handle[w].path], br[w].name) # br[w].target
       /\ repos[handle[w].path].commits[staged[w].oid].parents = <<br[w].target>>

=============================================================================
